---- MODULE Spec2Model ----
(***************************************************************************)
(* Model of ss-mgr:                                                        *)
(*   - the node-local process supervisor (slave/shadowsocks/manager_ng.go) *)
(*     with its table of servers, its two locks, the monitor loop and the  *)
(*     UDP stat handler;                                                   *)
(*   - the remote slave proxy (manager/slave.go) with its NodeMeta.        *)
(* Go objects reached through pointers to Server are cells of a heap, so   *)
(* that aliasing between the table, callers and snapshots is visible.      *)
(***************************************************************************)
EXTENDS Integers, Sequences, FiniteSets, TLC

\* ------------------------------------------------------------------ bounds
MaxPort  == 2      \* the managed ports are 1..MaxPort
MaxProcs == 3      \* child processes started during one run

Ports   == 1..MaxPort
\* Server objects that can be referenced at once: the table's, Add's argument,
\* the monitor's snapshots and a caller's snapshots.
ObjIds  == 1..(3 * MaxPort + 1)

\* ------------------------------------------------------- program constants
PortLimit      == 65536      \* Valid: s.Port < 65536
MinPasswordLen == 8          \* Valid: len(s.Password) >= 8

methods == {"table", "rc4", "rc4-md5", "aes-128-cfb", "aes-192-cfb", "aes-256-cfb",
            "aes-128-ctr", "aes-192-ctr", "aes-256-ctr", "bf-cfb", "camellia-128-cfb",
            "camellia-192-cfb", "camellia-256-cfb", "cast5-cfb", "des-cfb", "idea-cfb",
            "rc2-cfb", "seed-cfb", "salsa20", "chacha20", "chacha20-ietf"}

ErrNone           == "nil"
ErrServerNotFound == "Server not found."
ErrInvalidServer  == "Invalid server."
ErrServerExists   == "Server already exists."
ErrExec           == "exec error"      \* an OS error returned by mgr.exec

\* ------------------------------------------------------------------ threads
TAdd == "add"      \* a caller of Add
TRem == "rem"      \* a caller of Remove
TMon == "mon"      \* the ServerMonitor goroutine
TUdp == "udp"      \* the receive loop of Listen, running StatRecvHandler
TGet == "get"      \* a caller of ListServers / GetServer
Threads == {TAdd, TRem, TMon, TUdp, TGet}
NoThread == "none"

VARIABLES
    pc,           \* position of every thread
    serverLock,   \* mgr.serverLock: [w |-> holder of the write lock, r |-> readers]
    execLock,     \* mgr.execLock: its holder (only ever Lock()ed)
    heap,         \* the Server objects: id -> Server
    servers,      \* mgr.servers: port -> id of the Server pointed to
    procs,        \* the child processes started so far: pid -> [port, alive]
    disk,         \* <mgr.path>/<port>: the set of files; {} when the directory is absent
    addArg,       \* Add's argument s (an object id), 0 outside a call
    remArg,       \* Remove's argument port, 0 outside a call
    monSnap,      \* the monitor's ListServers result still to iterate: port -> id
    monCur,       \* the snapshot the monitor is relaunching, 0 if none
    udpBuf,       \* the first bytes of the receive loop's buffer buf
    udpPkt,       \* the datagram being handled
    udpPort,      \* StatRecvHandler's local port (as parsed by Atoi)
    udpTraffic,   \* StatRecvHandler's local traffic
    getArg,       \* GetServer's argument port; 0 for a ListServers call
    held,         \* snapshots a ListServers/GetServer caller holds: port -> id
    result,       \* the error value the current call of a thread returns
    fx,           \* the side effects the current call of a thread has performed
    removed,      \* ports whose Remove returned nil with no Add of the port since
    meta,         \* slave.meta: [openedPorts, stats], each the address of a map
    maps,         \* the Go maps of the slave: address -> mapping; address 0 is nil
    stub,         \* slave.conn and slave.stub are set
    slavePc,      \* where the caller of the slave is
    slaveCall,    \* the call in progress or last made: [op, req, traffics]
    slaveResp,    \* what the remote call returned: [back, err, list, traffics]
    slaveOut,     \* what the last call on the slave returned: [list, traffics, err]
    metaCopy      \* the slaveMeta a caller got from Meta()

supVars   == <<pc, serverLock, execLock, heap, servers, procs, disk, addArg, remArg,
               monSnap, monCur, udpBuf, udpPkt, udpPort, udpTraffic, getArg, held, result, fx, removed>>
slaveVars == <<meta, maps, stub, slavePc, slaveCall, slaveResp, slaveOut, metaCopy>>
vars      == <<pc, serverLock, execLock, heap, servers, procs, disk, addArg, remArg,
               monSnap, monCur, udpBuf, udpPkt, udpPort, udpTraffic, getArg, held, result, fx, removed,
               meta, maps, stub, slavePc, slaveCall, slaveResp, slaveOut, metaCopy>>

\* ------------------------------------------------------------------ helpers
EmptyMap == [x \in {} |-> 0]

MapPut(m, k, v) == [x \in DOMAIN m \cup {k} |-> IF x = k THEN v ELSE m[x]]

MapDel(m, k) == [x \in DOMAIN m \ {k} |-> m[x]]

\* ------------------------------------------------------------- Server values
\* A Server handed to Add: the exported fields set, everything else zero.
\* stat is <<>> for an atomic.Value never stored to, <<t>> for Stat{Traffic: t}.
\* runtime.cmd: 0 is nil, -1 a Cmd whose Process is nil, pid > 0 a started Cmd.
NewServer(host, port, password, method, timeout) ==
    [Host |-> host, Port |-> port, Password |-> password, Method |-> method,
     Timeout |-> timeout, stat |-> <<>>, PidFile |-> 0,
     path |-> 0, cmd |-> 0, logw |-> 0, config |-> 0]

ValidateEncryptMethod(m) == m \in methods

Valid(s) ==
    /\ Len(s.Host) # 0
    /\ s.Port > 0
    /\ s.Port < PortLimit
    /\ Len(s.Password) >= MinPasswordLen
    /\ ValidateEncryptMethod(s.Method)
    /\ s.Timeout > 0

\* The exported configuration of a Server.
ConfigOf(s) == <<s.Host, s.Port, s.Password, s.Method, s.Timeout>>

GetStat(s) == IF s.stat = <<>> THEN 0 ELSE s.stat[1]

Process(s) == IF s.cmd > 0 THEN s.cmd ELSE 0

\* process.Alive(pid): the process with that pid is running.
ProcessAlive(pid) == pid \in DOMAIN procs /\ procs[pid].alive

Alive(s) == Process(s) # 0 /\ ProcessAlive(Process(s))

\* ------------------------------------------------------------------- locks
\* sync.RWMutex. A writer needs the lock free of readers and writers; a reader
\* needs it free of a writer. (Go also holds new readers back while a writer
\* waits; that only removes interleavings.)
CanLock(l)  == l.w = NoThread /\ l.r = {}
CanRLock(l) == l.w = NoThread
Lock(l, t)    == [l EXCEPT !.w = t]
Unlock(l)     == [l EXCEPT !.w = NoThread]
RLock(l, t)   == [l EXCEPT !.r = @ \cup {t}]
RUnlock(l, t) == [l EXCEPT !.r = @ \ {t}]

\* -------------------------------------------------------------------- heap
Range(f) == {f[x] : x \in DOMAIN f}

\* The address of a newly allocated object: any free one; the allocator tries
\* the hinted address first.
Alloc(h, hint) ==
    IF hint \in ObjIds \ DOMAIN h THEN hint
    ELSE CHOOSE i \in ObjIds \ DOMAIN h : \A j \in ObjIds \ DOMAIN h : i <= j

\* Garbage collection: the objects something still refers to.
Gc(h, roots) == [i \in DOMAIN h \cap roots |-> h[i]]

Roots(tbl, a, ms, mc, hd) == (Range(tbl) \cup {a, mc} \cup Range(ms) \cup Range(hd)) \ {0}

\* ----------------------------------------------------------- exec and kill
\* Where mgr.exec fails: "none" (it succeeds), at os.MkdirAll, at s.Save, at
\* os.Create of the log, at cmd.Start; "pidfile": SavePidFile fails, which is
\* only logged.
ExecFailures == {"none", "mkdir", "save", "create", "start", "pidfile"}
ExecErrors   == {"mkdir", "save", "create", "start"}

\* The failures the environment injects, and the outcomes the run can still
\* take: no further process once MaxProcs ran.
InjectedFailures == {"none", "start"}
ExecChoices == IF Len(procs) < MaxProcs THEN InjectedFailures
               ELSE InjectedFailures \cap ExecErrors

ExecErr(fail) == IF fail \in ExecErrors THEN ErrExec ELSE ErrNone

\* prepareExec's effect on the Server.
PrepareExecServer(s, fail) ==
    IF fail \in {"mkdir", "save"}
    THEN [s EXCEPT !.PidFile = s.Port]
    ELSE [s EXCEPT !.PidFile = s.Port, !.path = s.Port, !.config = s.Port]

\* prepareExec's effect on the directory of s.Port.
PrepareExecDisk(d, s, fail) ==
    IF s.Port \notin DOMAIN d \/ fail = "mkdir" THEN d
    ELSE IF fail = "save" THEN [d EXCEPT ![s.Port] = @ \cup {"."}]
    ELSE [d EXCEPT ![s.Port] = @ \cup {".", "ss_server.json"}]

\* exec's effect on the Server; pid is the process cmd.Start creates.
ExecServer(s, fail, pid) ==
    LET s1 == PrepareExecServer(s, fail) IN
    IF fail \in {"mkdir", "save", "create"} THEN s1
    ELSE IF fail = "start" THEN [s1 EXCEPT !.logw = 1, !.cmd = -1]
    ELSE [s1 EXCEPT !.logw = 1, !.cmd = pid]

ExecDisk(d, s, fail) ==
    LET d1 == PrepareExecDisk(d, s, fail) IN
    IF s.Port \notin DOMAIN d \/ fail \in {"mkdir", "save", "create"} THEN d1
    ELSE IF fail \in {"start", "pidfile"} THEN [d1 EXCEPT ![s.Port] = @ \cup {"ss_server.log"}]
    ELSE [d1 EXCEPT ![s.Port] = @ \cup {"ss_server.log", "ss_server.pid"}]

ExecProcs(ps, s, fail) ==
    IF fail \in ExecErrors THEN ps ELSE Append(ps, [port |-> s.Port, alive |-> TRUE])

ExecFx(fail) ==
    IF fail = "mkdir" THEN {"mkdir"}
    ELSE IF fail = "save" THEN {"mkdir", "save"}
    ELSE IF fail \in {"create", "start"} THEN {"mkdir", "save", "create"}
    ELSE {"mkdir", "save", "create", "start"}

\* deleteResidue: os.RemoveAll(s.runtime.path); the empty path removes nothing.
DeleteResidue(d, s) == IF s.path \in DOMAIN d THEN [d EXCEPT ![s.path] = {}] ELSE d

\* kill: Process().Kill(), cmd.Wait(), logw.Close(), deleteResidue.
KillProcs(ps, s) ==
    IF Process(s) \in DOMAIN ps THEN [ps EXCEPT ![Process(s)].alive = FALSE] ELSE ps

\* ------------------------------------------------------------ the supervisor
\* The configurations callers hand to Add.
GoodConfig(p) == NewServer("0.0.0.0", p, "password", "aes-256-cfb", 60)
OtherConfig(p) == NewServer("127.0.0.1", p, "another-secret", "chacha20", 30)
InvalidConfigs ==
    { NewServer("0.0.0.0", 1, "short", "aes-256-cfb", 60),
      NewServer("0.0.0.0", 2, "password", "rot13", 60),
      NewServer("", 1, "password", "aes-256-cfb", 60),
      NewServer("0.0.0.0", 2, "password", "aes-256-cfb", 0),
      NewServer("0.0.0.0", 0, "password", "aes-256-cfb", 60),
      NewServer("0.0.0.0", PortLimit, "password", "aes-256-cfb", 60) }
ValidConfigs == {GoodConfig(p) : p \in Ports} \cup {OtherConfig(1)}
AllConfigs == ValidConfigs \cup InvalidConfigs

\* A panic no one recovers ends the program: nothing of it runs any more.
Running == pc[TUdp] # "panicked"

Step(t, from, to) == Running /\ pc[t] = from /\ pc' = [pc EXCEPT ![t] = to]

\* Add, before any lock: the caller's Server object exists.
AddCall(cfgs) ==
    /\ \E cfg \in cfgs :
         /\ Step(TAdd, "idle", "AddLockServer")
         /\ addArg' = Alloc(heap, cfg.Port)
         /\ heap' = MapPut(heap, Alloc(heap, cfg.Port), cfg)
         /\ removed' = removed \ {cfg.Port}
    /\ UNCHANGED <<serverLock, execLock, servers, procs, disk, remArg, monSnap, monCur,
                   udpBuf, udpPkt, udpPort, udpTraffic, getArg, held, result, fx>>
    /\ UNCHANGED slaveVars

\* mgr.serverLock.Lock()
AddLockServer ==
    /\ Step(TAdd, "AddLockServer", "AddLockExec")
    /\ CanLock(serverLock)
    /\ serverLock' = Lock(serverLock, TAdd)
    /\ UNCHANGED <<execLock, heap, servers, procs, disk, addArg, remArg, monSnap, monCur,
                   udpBuf, udpPkt, udpPort, udpTraffic, getArg, held, result, fx, removed>>
    /\ UNCHANGED slaveVars

\* mgr.execLock.Lock()
AddLockExec ==
    /\ Step(TAdd, "AddLockExec", "AddBody")
    /\ execLock = NoThread
    /\ execLock' = TAdd
    /\ UNCHANGED <<serverLock, heap, servers, procs, disk, addArg, remArg, monSnap, monCur,
                   udpBuf, udpPkt, udpPort, udpTraffic, getArg, held, result, fx, removed>>
    /\ UNCHANGED slaveVars

\* Add without its look at the table.
AddDecisionNoLookup(tbl, s) == IF ~Valid(s) THEN ErrInvalidServer ELSE "exec"

\* What Add decides before it touches anything: an error, or "exec".
AddDecision(tbl, s) ==
    IF s.Port \in DOMAIN tbl THEN ErrServerExists
    ELSE IF ~Valid(s) THEN ErrInvalidServer
    ELSE "exec"

\* The body of Add, both locks held.
AddBody ==
    /\ Step(TAdd, "AddBody", "AddUnlock")
    /\ LET s == heap[addArg] IN
       IF AddDecision(servers, s) # "exec"
       THEN /\ result' = [result EXCEPT ![TAdd] = AddDecision(servers, s)]
            /\ UNCHANGED <<heap, servers, procs, disk, fx, removed>>
       ELSE \E fail \in ExecChoices :
            /\ heap' = [heap EXCEPT ![addArg] = ExecServer(s, fail, Len(procs) + 1)]
            /\ disk' = ExecDisk(disk, s, fail)
            /\ procs' = ExecProcs(procs, s, fail)
            /\ fx' = [fx EXCEPT ![TAdd] = ExecFx(fail)]
            /\ result' = [result EXCEPT ![TAdd] = ExecErr(fail)]
            /\ servers' = IF ExecErr(fail) = ErrNone
                             THEN MapPut(servers, s.Port, addArg) ELSE servers
            /\ removed' = removed \ {s.Port}
    /\ UNCHANGED <<serverLock, execLock, addArg, remArg, monSnap, monCur,
                   udpBuf, udpPkt, udpPort, udpTraffic, getArg, held>>
    /\ UNCHANGED slaveVars

\* The deferred unlocks, and the return to the caller.
AddUnlock ==
    /\ Step(TAdd, "AddUnlock", "idle")
    /\ execLock' = NoThread
    /\ serverLock' = Unlock(serverLock)
    /\ addArg' = 0
    /\ result' = [result EXCEPT ![TAdd] = ErrNone]
    /\ fx' = [fx EXCEPT ![TAdd] = {}]
    /\ heap' = Gc(heap, Roots(servers, 0, monSnap, monCur, held))
    /\ UNCHANGED <<servers, procs, disk, remArg, monSnap, monCur,
                   udpBuf, udpPkt, udpPort, udpTraffic, getArg, held, removed>>
    /\ UNCHANGED slaveVars

RemoveCall(ports) ==
    /\ \E port \in ports :
         /\ Step(TRem, "idle", "RemLockServer")
         /\ remArg' = port
    /\ UNCHANGED <<serverLock, execLock, heap, servers, procs, disk, addArg, monSnap, monCur,
                   udpBuf, udpPkt, udpPort, udpTraffic, getArg, held, result, fx, removed>>
    /\ UNCHANGED slaveVars

RemLockServer ==
    /\ Step(TRem, "RemLockServer", "RemLockExec")
    /\ CanLock(serverLock)
    /\ serverLock' = Lock(serverLock, TRem)
    /\ UNCHANGED <<execLock, heap, servers, procs, disk, addArg, remArg, monSnap, monCur,
                   udpBuf, udpPkt, udpPort, udpTraffic, getArg, held, result, fx, removed>>
    /\ UNCHANGED slaveVars

RemLockExec ==
    /\ Step(TRem, "RemLockExec", "RemBody")
    /\ execLock = NoThread
    /\ execLock' = TRem
    /\ UNCHANGED <<serverLock, heap, servers, procs, disk, addArg, remArg, monSnap, monCur,
                   udpBuf, udpPkt, udpPort, udpTraffic, getArg, held, result, fx, removed>>
    /\ UNCHANGED slaveVars

\* The body of Remove, both locks held: delete the entry, then kill(s).
RemBody ==
    /\ Step(TRem, "RemBody", "RemUnlock")
    /\ IF remArg \notin DOMAIN servers
       THEN /\ result' = [result EXCEPT ![TRem] = ErrServerNotFound]
            /\ UNCHANGED <<heap, servers, procs, disk, fx>>
       ELSE LET s == heap[servers[remArg]] IN
            /\ servers' = MapDel(servers, remArg)
            /\ procs' = KillProcs(procs, s)
            /\ disk' = DeleteResidue(disk, s)
            /\ fx' = [fx EXCEPT ![TRem] = {"delete", "kill", "rmdir"}]
            /\ result' = [result EXCEPT ![TRem] = ErrNone]
            /\ heap' = Gc([heap EXCEPT ![servers[remArg]].logw = 0],
                           Roots(servers', addArg, monSnap, monCur, held))
    /\ UNCHANGED <<serverLock, execLock, addArg, remArg, monSnap, monCur,
                   udpBuf, udpPkt, udpPort, udpTraffic, getArg, held, removed>>
    /\ UNCHANGED slaveVars

RemUnlock ==
    /\ Step(TRem, "RemUnlock", "idle")
    /\ execLock' = NoThread
    /\ serverLock' = Unlock(serverLock)
    /\ removed' = IF result[TRem] = ErrNone THEN removed \cup {remArg} ELSE removed
    /\ remArg' = 0
    /\ result' = [result EXCEPT ![TRem] = ErrNone]
    /\ fx' = [fx EXCEPT ![TRem] = {}]
    /\ UNCHANGED <<heap, servers, procs, disk, addArg, monSnap, monCur,
                   udpBuf, udpPkt, udpPort, udpTraffic, getArg, held>>
    /\ UNCHANGED slaveVars

\* A child process terminates on its own.
Crash ==
    /\ \E pid \in DOMAIN procs :
         /\ procs[pid].alive
         /\ procs' = [procs EXCEPT ![pid].alive = FALSE]
    /\ UNCHANGED <<pc, serverLock, execLock, heap, servers, disk, addArg, remArg, monSnap,
                   monCur, udpBuf, udpPkt, udpPort, udpTraffic, getArg, held, result, fx, removed>>
    /\ UNCHANGED slaveVars

\* ------------------------------------------------------------------ snapshots
\* clone: copy := *s; copy.stat.Store(s.GetStat()); copy.runtime.logw = nil.
\* The copy shares runtime.cmd (a pointer) with s.
clone(s) == [s EXCEPT !.stat = <<GetStat(s)>>, !.logw = 0]

\* A clone that hands out the entry itself.
CloneAddrShared(h, id, hint) == id

\* Where the value clone returns lives: &copy, a new object.
CloneAddr(h, id, hint) == Alloc(h, hint)

\* currentServers[port] = s.clone() for every entry of tbl whose port is in todo:
\* the heap with the clones in it, and the map of their addresses.
RECURSIVE CloneAll(_, _, _, _)
CloneAll(h, tbl, todo, base) ==
    IF todo = {} THEN [heap |-> h, snap |-> EmptyMap]
    ELSE LET p    == CHOOSE q \in todo : \A r \in todo : q <= r
             a    == CloneAddr(h, tbl[p], base + p)
             rest == CloneAll(MapPut(h, a, clone(h[tbl[p]])), tbl, todo \ {p}, base)
         IN  [heap |-> rest.heap, snap |-> MapPut(rest.snap, p, a)]

\* ------------------------------------------------------------ ServerMonitor
\* After time.Sleep: ListServers takes the read lock.
MonRLock ==
    /\ Step(TMon, "MonSleep", "MonList")
    /\ CanRLock(serverLock)
    /\ serverLock' = RLock(serverLock, TMon)
    /\ UNCHANGED <<execLock, heap, servers, procs, disk, addArg, remArg, monSnap, monCur,
                   udpBuf, udpPkt, udpPort, udpTraffic, getArg, held, result, fx, removed>>
    /\ UNCHANGED slaveVars

\* ListServers clones every entry and releases the read lock.
MonList ==
    /\ Step(TMon, "MonList", "MonIter")
    /\ LET r == CloneAll(heap, servers, DOMAIN servers, MaxPort) IN
         /\ heap' = r.heap
         /\ monSnap' = r.snap
    /\ serverLock' = RUnlock(serverLock, TMon)
    /\ UNCHANGED <<execLock, servers, procs, disk, addArg, remArg, monCur,
                   udpBuf, udpPkt, udpPort, udpTraffic, getArg, held, result, fx, removed>>
    /\ UNCHANGED slaveVars

\* One iteration of the range loop: a snapshot that is alive is skipped, one
\* that is not goes on to the relaunch. The pass ends when none is left.
MonIter ==
    /\ Running
    /\ pc[TMon] = "MonIter"
    /\ IF monSnap = EmptyMap
       THEN /\ pc' = [pc EXCEPT ![TMon] = "MonSleep"]
            /\ UNCHANGED <<heap, monSnap, monCur>>
       ELSE \E p \in DOMAIN monSnap :
            /\ monSnap' = MapDel(monSnap, p)
            /\ IF Alive(heap[monSnap[p]])
               THEN /\ pc' = pc
                    /\ monCur' = 0
               ELSE /\ pc' = [pc EXCEPT ![TMon] = "MonLockExec"]
                    /\ monCur' = monSnap[p]
            /\ heap' = Gc(heap, Roots(servers, addArg, monSnap', monCur', held))
    /\ UNCHANGED <<serverLock, execLock, servers, procs, disk, addArg, remArg,
                   udpBuf, udpPkt, udpPort, udpTraffic, getArg, held, result, fx, removed>>
    /\ UNCHANGED slaveVars

\* mgr.execLock.Lock()
MonLockExec ==
    /\ Step(TMon, "MonLockExec", "MonExec")
    /\ execLock = NoThread
    /\ execLock' = TMon
    /\ UNCHANGED <<serverLock, heap, servers, procs, disk, addArg, remArg, monSnap, monCur,
                   udpBuf, udpPkt, udpPort, udpTraffic, getArg, held, result, fx, removed>>
    /\ UNCHANGED slaveVars

\* mgr.exec(s) on the snapshot; on an error deleteResidue(s), then mgr.remove.
MonExec ==
    /\ Running
    /\ pc[TMon] = "MonExec"
    /\ \E fail \in ExecChoices :
         LET s  == heap[monCur]
             s1 == ExecServer(s, fail, Len(procs) + 1)
         IN  /\ heap' = [heap EXCEPT ![monCur] = s1]
             /\ procs' = ExecProcs(procs, s, fail)
             /\ IF ExecErr(fail) = ErrNone
                THEN /\ disk' = ExecDisk(disk, s, fail)
                     /\ fx' = [fx EXCEPT ![TMon] = ExecFx(fail)]
                     /\ pc' = [pc EXCEPT ![TMon] = "MonUnlockExec"]
                ELSE /\ disk' = DeleteResidue(ExecDisk(disk, s, fail), s1)
                     /\ fx' = [fx EXCEPT ![TMon] = ExecFx(fail) \cup {"rmdir"}]
                     /\ pc' = [pc EXCEPT ![TMon] = "MonRemove"]
             /\ result' = [result EXCEPT ![TMon] = ExecErr(fail)]
    /\ UNCHANGED <<serverLock, execLock, servers, addArg, remArg, monSnap, monCur,
                   udpBuf, udpPkt, udpPort, udpTraffic, getArg, held, removed>>
    /\ UNCHANGED slaveVars

\* mgr.remove(s.Port): serverLock.Lock(), delete, Unlock, with execLock held.
MonRemove ==
    /\ Step(TMon, "MonRemove", "MonUnlockExec")
    /\ CanLock(serverLock)
    /\ servers' = MapDel(servers, heap[monCur].Port)
    /\ fx' = [fx EXCEPT ![TMon] = @ \cup {"delete"}]
    /\ heap' = Gc(heap, Roots(servers', addArg, monSnap, monCur, held))
    /\ UNCHANGED <<serverLock, execLock, procs, disk, addArg, remArg, monSnap, monCur,
                   udpBuf, udpPkt, udpPort, udpTraffic, getArg, held, result, removed>>
    /\ UNCHANGED slaveVars

\* mgr.execLock.Unlock(); the snapshot goes out of scope.
MonUnlockExec ==
    /\ Step(TMon, "MonUnlockExec", "MonIter")
    /\ execLock' = NoThread
    /\ monCur' = 0
    /\ result' = [result EXCEPT ![TMon] = ErrNone]
    /\ fx' = [fx EXCEPT ![TMon] = {}]
    /\ heap' = Gc(heap, Roots(servers, addArg, monSnap, 0, held))
    /\ UNCHANGED <<serverLock, servers, procs, disk, addArg, remArg, monSnap,
                   udpBuf, udpPkt, udpPort, udpTraffic, getArg, held, removed>>
    /\ UNCHANGED slaveVars

\* ---------------------------------------------------- ListServers / GetServer
\* A caller starts GetServer(port), or ListServers() when arg is 0.
GetCall(args) ==
    /\ \E arg \in args :
         /\ Step(TGet, "idle", "GetRLock")
         /\ getArg' = arg
    /\ UNCHANGED <<serverLock, execLock, heap, servers, procs, disk, addArg, remArg, monSnap,
                   monCur, udpBuf, udpPkt, udpPort, udpTraffic, held, result, fx, removed>>
    /\ UNCHANGED slaveVars

\* mgr.serverLock.RLock()
GetRLock ==
    /\ Step(TGet, "GetRLock", "GetBody")
    /\ CanRLock(serverLock)
    /\ serverLock' = RLock(serverLock, TGet)
    /\ UNCHANGED <<execLock, heap, servers, procs, disk, addArg, remArg, monSnap, monCur,
                   udpBuf, udpPkt, udpPort, udpTraffic, getArg, held, result, fx, removed>>
    /\ UNCHANGED slaveVars

\* The body of ListServers or GetServer and the deferred RUnlock: the caller
\* now holds the clones (none when GetServer returns ErrServerNotFound).
GetBody ==
    /\ Step(TGet, "GetBody", "GetHold")
    /\ LET todo == IF getArg = 0 THEN DOMAIN servers ELSE {getArg} \cap DOMAIN servers
           r    == CloneAll(heap, servers, todo, 2 * MaxPort)
       IN  /\ heap' = r.heap
           /\ held' = r.snap
           /\ result' = [result EXCEPT ![TGet] =
                            IF getArg # 0 /\ getArg \notin DOMAIN servers
                            THEN ErrServerNotFound ELSE ErrNone]
    /\ serverLock' = RUnlock(serverLock, TGet)
    /\ UNCHANGED <<execLock, servers, procs, disk, addArg, remArg, monSnap, monCur,
                   udpBuf, udpPkt, udpPort, udpTraffic, getArg, fx, removed>>
    /\ UNCHANGED slaveVars

\* What a caller writes into a snapshot it holds.
CallerPassword == "changed-by-caller"
CallerStat     == <<99>>

\* The caller changes a config field of a snapshot it holds.
SnapSetPassword ==
    /\ Running
    /\ pc[TGet] = "GetHold"
    /\ \E p \in DOMAIN held :
         /\ heap[held[p]].Password # CallerPassword
         /\ heap' = [heap EXCEPT ![held[p]].Password = CallerPassword]
    /\ UNCHANGED <<pc, serverLock, execLock, servers, procs, disk, addArg, remArg, monSnap,
                   monCur, udpBuf, udpPkt, udpPort, udpTraffic, getArg, held, result, fx, removed>>
    /\ UNCHANGED slaveVars

\* The caller stores a Stat into a snapshot it holds.
SnapStoreStat ==
    /\ Running
    /\ pc[TGet] = "GetHold"
    /\ \E p \in DOMAIN held :
         /\ heap[held[p]].stat # CallerStat
         /\ heap' = [heap EXCEPT ![held[p]].stat = CallerStat]
    /\ UNCHANGED <<pc, serverLock, execLock, servers, procs, disk, addArg, remArg, monSnap,
                   monCur, udpBuf, udpPkt, udpPort, udpTraffic, getArg, held, result, fx, removed>>
    /\ UNCHANGED slaveVars

\* The caller drops its snapshots.
GetDrop ==
    /\ Step(TGet, "GetHold", "idle")
    /\ held' = EmptyMap
    /\ getArg' = 0
    /\ result' = [result EXCEPT ![TGet] = ErrNone]
    /\ heap' = Gc(heap, Roots(servers, addArg, monSnap, monCur, EmptyMap))
    /\ UNCHANGED <<serverLock, execLock, servers, procs, disk, addArg, remArg, monSnap,
                   monCur, udpBuf, udpPkt, udpPort, udpTraffic, fx, removed>>
    /\ UNCHANGED slaveVars

\* ---------------------------------------------------------- strconv.Atoi
\* A port key is a string, here the tuple of its characters. Go's int is 64
\* bits wide: an int is its sign and its magnitude in four 16-bit words, least
\* significant first.
Radix == 256 * 256
HalfRadix == Radix \div 2

DigitChars == <<"0", "1", "2", "3", "4", "5", "6", "7", "8", "9">>
IsDigit(c) == \E i \in 1..10 : DigitChars[i] = c
DigitVal(c) == (CHOOSE i \in 1..10 : DigitChars[i] = c) - 1

ZeroWords == <<0, 0, 0, 0>>
Int64Zero == [neg |-> FALSE, w |-> ZeroWords]
\* 1<<63 - 1 and -1<<63, what ParseInt returns with a range error
MaxInt64 == [neg |-> FALSE, w |-> <<Radix - 1, Radix - 1, Radix - 1, HalfRadix - 1>>]
MinInt64 == [neg |-> TRUE, w |-> <<0, 0, 0, HalfRadix>>]
SmallInt(n) == [neg |-> FALSE, w |-> <<n % Radix, n \div Radix, 0, 0>>]

\* n*scale + d on the words, with the carry out of 64 bits (scale <= 10000).
MulAdd(w, scale, d) ==
    LET x0 == w[1] * scale + d
        x1 == w[2] * scale + x0 \div Radix
        x2 == w[3] * scale + x1 \div Radix
        x3 == w[4] * scale + x2 \div Radix
    IN  [w |-> <<x0 % Radix, x1 % Radix, x2 % Radix, x3 % Radix>>, carry |-> x3 \div Radix]

\* The digits digs[from..to] (at most four) as a number.
Chunk(digs, from, to) ==
    LET d(i) == IF i >= from THEN DigitVal(digs[i]) ELSE 0
    IN  d(to - 3) * 1000 + d(to - 2) * 100 + d(to - 1) * 10 + d(to)

Pow10(k) == IF k = 1 THEN 10 ELSE IF k = 2 THEN 100 ELSE IF k = 3 THEN 1000 ELSE 10000

\* The value of the first n digits, n = n*10 + d for each digit in turn, taken
\* four digits at a step; ovf once 64 bits overflowed.
RECURSIVE ParseUint(_, _)
ParseUint(digs, n) ==
    IF n = 0 THEN [w |-> ZeroWords, ovf |-> FALSE]
    ELSE LET k   == ((n - 1) % 4) + 1
             acc == ParseUint(digs, n - k)
             m   == MulAdd(acc.w, Pow10(k), Chunk(digs, n - k + 1, n))
         IN  [w |-> m.w, ovf |-> acc.ovf \/ m.carry > 0]

\* strconv.Atoi, its error dropped (port, _ = strconv.Atoi(portS)): 0 on a
\* syntax error, the nearest int64 on a range error.
Atoi(key) ==
    LET signed == Len(key) > 0 /\ key[1] \in {"-", "+"}
        neg    == Len(key) > 0 /\ key[1] = "-"
        digs   == IF signed THEN Tail(key) ELSE key
    IN  IF Len(digs) = 0 \/ \E i \in 1..Len(digs) : ~IsDigit(digs[i]) THEN Int64Zero
        ELSE LET u == ParseUint(digs, Len(digs)) IN
             IF ~neg
             THEN IF u.ovf \/ u.w[4] >= HalfRadix THEN MaxInt64
                  ELSE [neg |-> FALSE, w |-> u.w]
             ELSE IF u.ovf \/ u.w[4] > HalfRadix
                     \/ (u.w[4] = HalfRadix /\ <<u.w[1], u.w[2], u.w[3]>> # <<0, 0, 0>>)
                  THEN MinInt64
                  ELSE [neg |-> u.w # ZeroWords, w |-> u.w]

\* int32(port): the low 32 bits, read as a signed number.
Int32(v) ==
    LET lo  == IF v.neg THEN (Radix - v.w[1]) % Radix ELSE v.w[1]
        hi  == IF v.neg
               THEN (2 * Radix - v.w[2] - (IF v.w[1] = 0 THEN 0 ELSE 1)) % Radix
               ELSE v.w[2]
    IN  IF hi < HalfRadix THEN hi * Radix + lo ELSE (hi - Radix) * Radix + lo

\* ---------------------------------------------------------- StatRecvHandler
\* data[:4] is the command, data[5:] the body.
TagLen == 4
BodyStart == 5
NUL == "NUL"
CommandBytes(tag) ==
    IF tag = "stat" THEN <<"s", "t", "a", "t">>
    ELSE IF tag = "ping" THEN <<"p", "i", "n", "g">>
    ELSE [i \in 1..TagLen |-> NUL]

\* A datagram of more than BodyStart bytes: the 4-byte command, a separator, the
\* body and the closing NUL. json: the body unmarshals into a map[string]int64;
\* pairs: the key/value pairs of the JSON object in the order they are written.
\* n is the number of bytes received, BodyStart + 1 standing for that or more;
\* head the first TagLen bytes, or all of them when there are fewer.
Packet(tag, json, pairs) ==
    [tag |-> tag, json |-> json, pairs |-> pairs, n |-> BodyStart + 1, head |-> CommandBytes(tag)]
NoPacket == Packet("", FALSE, <<>>)

\* A datagram of at most BodyStart bytes: nothing of a body.
ShortDatagram(bytes) ==
    [tag |-> "", json |-> FALSE, pairs |-> <<>>, n |-> Len(bytes),
     head |-> SubSeq(bytes, 1, IF Len(bytes) < TagLen THEN Len(bytes) ELSE TagLen)]

\* conn.ReadFromUDP(buf) writes the bytes received over the front of buf.
ReadFromUDP(buf, pkt) ==
    [i \in 1..TagLen |-> IF i <= Len(pkt.head) THEN pkt.head[i] ELSE buf[i]]

\* json.Unmarshal into map[string]int64: of a repeated key the last value stays.
Unmarshal(pairs) ==
    [k \in {pairs[i][1] : i \in 1..Len(pairs)} |->
        LET last == CHOOSE i \in 1..Len(pairs) :
                        /\ pairs[i][1] = k
                        /\ \A j \in 1..Len(pairs) : pairs[j][1] = k => j <= i
        IN  pairs[last][2]]

\* A handler that adds the reported traffic to the entry's.
StatStoreAdding(h, tbl, port, traffic) ==
    IF Int32(port) \in DOMAIN tbl
    THEN [h EXCEPT ![tbl[Int32(port)]].stat = <<GetStat(h[tbl[Int32(port)]]) + traffic>>]
    ELSE h

\* s.stat.Store(Stat{Traffic: traffic}) on the entry the 32-bit port names, if any.
StatStore(h, tbl, port, traffic) ==
    IF Int32(port) \in DOMAIN tbl
    THEN [h EXCEPT ![tbl[Int32(port)]].stat = <<traffic>>]
    ELSE h

\* The receive loop reads a datagram of n bytes into buf and hands buf[:n-1] to
\* StatRecvHandler; buf[:n-1] with n = 0 is a slice bound of -1, a panic.
UdpRecv(pkts) ==
    /\ \E pkt \in pkts :
         /\ Step(TUdp, "idle", IF pkt.n = 0 THEN "panicked" ELSE "StatRecvHandler")
         /\ udpPkt' = pkt
         /\ udpBuf' = ReadFromUDP(udpBuf, pkt)
    /\ UNCHANGED <<serverLock, execLock, heap, servers, procs, disk, addArg, remArg, monSnap,
                   monCur, udpPort, udpTraffic, getArg, held, result, fx, removed>>
    /\ UNCHANGED slaveVars

\* The handler up to the lock: the command check on data[:4] (data is
\* buf[:n-1], and a slice may be extended up to the capacity of buf, so these
\* are the first bytes of buf whatever n is), data[5:] (a panic when data has
\* fewer than 5 bytes), json.Unmarshal, the first key of the range loop (any
\* key of the map), the sign checks.
StatParse ==
    /\ pc[TUdp] = "StatRecvHandler"
    /\ IF udpBuf # CommandBytes("stat")
       THEN /\ pc' = [pc EXCEPT ![TUdp] = "idle"]
            /\ udpPkt' = NoPacket
            /\ UNCHANGED <<udpPort, udpTraffic>>
       ELSE IF udpPkt.n - 1 < BodyStart
       THEN /\ pc' = [pc EXCEPT ![TUdp] = "panicked"]
            /\ UNCHANGED <<udpPkt, udpPort, udpTraffic>>
       ELSE IF ~udpPkt.json \/ udpPkt.pairs = <<>>
       THEN /\ pc' = [pc EXCEPT ![TUdp] = "idle"]
            /\ udpPkt' = NoPacket
            /\ UNCHANGED <<udpPort, udpTraffic>>
       ELSE LET stat == Unmarshal(udpPkt.pairs) IN
            \E portS \in DOMAIN stat :
              IF Atoi(portS).neg \/ stat[portS] < 0
              THEN /\ pc' = [pc EXCEPT ![TUdp] = "idle"]
                   /\ udpPkt' = NoPacket
                   /\ UNCHANGED <<udpPort, udpTraffic>>
              ELSE /\ pc' = [pc EXCEPT ![TUdp] = "StatRLock"]
                   /\ udpPort' = Atoi(portS)
                   /\ udpTraffic' = stat[portS]
                   /\ UNCHANGED udpPkt
    /\ UNCHANGED <<serverLock, execLock, heap, servers, procs, disk, addArg, remArg, monSnap,
                   monCur, udpBuf, getArg, held, result, fx, removed>>
    /\ UNCHANGED slaveVars

\* mgr.serverLock.RLock()
StatRLock ==
    /\ Step(TUdp, "StatRLock", "StatUpdate")
    /\ CanRLock(serverLock)
    /\ serverLock' = RLock(serverLock, TUdp)
    /\ UNCHANGED <<execLock, heap, servers, procs, disk, addArg, remArg, monSnap, monCur,
                   udpBuf, udpPkt, udpPort, udpTraffic, getArg, held, result, fx, removed>>
    /\ UNCHANGED slaveVars

\* The lookup, the Store and the deferred RUnlock.
StatUpdate ==
    /\ Step(TUdp, "StatUpdate", "idle")
    /\ heap' = StatStore(heap, servers, udpPort, udpTraffic)
    /\ serverLock' = RUnlock(serverLock, TUdp)
    /\ udpPkt' = NoPacket
    /\ udpPort' = Int64Zero
    /\ udpTraffic' = 0
    /\ UNCHANGED <<execLock, servers, procs, disk, addArg, remArg, monSnap, monCur,
                   udpBuf, getArg, held, result, fx, removed>>
    /\ UNCHANGED slaveVars

\* The decimal numeral of a port, as the child writes it into its report.
RECURSIVE Itoa(_)
Itoa(n) == IF n < 10 THEN <<DigitChars[n + 1]>>
           ELSE Append(Itoa(n \div 10), DigitChars[(n % 10) + 1])

StatPacket(pairs) == Packet("stat", TRUE, pairs)

\* Reports for the managed ports.
GoodPackets ==
    {StatPacket(<<<<Itoa(p), 5>>>>) : p \in Ports} \cup {StatPacket(<<<<Itoa(1), 9>>>>)}

\* 4294967297 = 2^32 + 1,  2147483649 = 2^31 + 1
KeyWrap  == <<"4", "2", "9", "4", "9", "6", "7", "2", "9", "7">>
KeyInt31 == <<"2", "1", "4", "7", "4", "8", "3", "6", "4", "9">>
KeyHuge  == <<"9", "9", "9", "9", "9", "9", "9", "9", "9", "9",
              "9", "9", "9", "9", "9", "9", "9", "9", "9", "9">>

\* Reports whose key is no managed port, or whose value or form is off.
OddPackets ==
    { StatPacket(<<<<KeyWrap, 9>>>>),
      StatPacket(<<<<KeyInt31, 9>>>>),
      StatPacket(<<<<KeyHuge, 9>>>>),
      StatPacket(<<<<Itoa(PortLimit + 1), 9>>>>),
      StatPacket(<<<<(<<"x">>), 9>>>>),
      StatPacket(<<<<(<<"-", "1">>), 9>>>>),
      StatPacket(<<<<Itoa(1), -1>>>>),
      StatPacket(<<<<Itoa(1), 9>>, <<Itoa(2), -1>>>>),
      StatPacket(<<>>),
      Packet("stat", FALSE, <<>>),
      Packet("ping", TRUE, <<<<Itoa(1), 9>>>>) }

AllPackets == GoodPackets \cup OddPackets

\* Datagrams too short to hold a body: the empty one, part of a command, and a
\* command with only the closing NUL or only the separator after it.
ShortDatagrams ==
    { ShortDatagram(<<>>),
      ShortDatagram(<<NUL>>),
      ShortDatagram(<<"s", "t", NUL>>),
      ShortDatagram(<<"p", "i", "n", "g", NUL>>),
      ShortDatagram(<<"s", "t", "a", "t", NUL>>) }

\* ------------------------------------------------------------------ slave
\* A ShadowsocksService is [UserId, Port, Password]; on the wire (a
\* protocol.ShadowsocksService) it is the tuple <<user id, port, password>>.
MaxReq == 2
Users == {"alice", "bob"}
ServicePassword == "password"
Services == {[UserId |-> u, Port |-> p, Password |-> ServicePassword] : u \in Users, p \in Ports}

\* The sequences of at most n distinct elements of S.
RECURSIVE ListsOf(_, _)
ListsOf(S, n) ==
    IF n = 0 THEN {<<>>}
    ELSE LET shorter == ListsOf(S, n - 1)
         IN  shorter \cup {Append(l, x) : l \in {k \in shorter : Len(k) = n - 1}, x \in S}
DistinctLists(S, n) == {l \in ListsOf(S, n) : \A i, j \in 1..Len(l) : l[i] = l[j] => i = j}

constructProtocolServiceList(srvs) ==
    [i \in 1..Len(srvs) |-> <<srvs[i].UserId, srvs[i].Port, srvs[i].Password>>]
constructServiceList(list) ==
    [i \in 1..Len(list) |-> [UserId |-> list[i][1], Port |-> list[i][2], Password |-> list[i][3]]]

\* The identity key of a wire service, and the reconciliation of two lists:
\* what the first has and the second lacks, and the reverse.
KeyOf(e) == <<e[1], e[2]>>
KeysOf(list) == {KeyOf(list[i]) : i \in 1..Len(list)}
compareLists(a, b) ==
    [missing |-> KeysOf(a) \ KeysOf(b), unexpected |-> KeysOf(b) \ KeysOf(a)]
NoDiff == [missing |-> {}, unexpected |-> {}]
constructErrorFromDifferenceServiceList(diff) ==
    [kind |-> "difference", missing |-> diff.missing, unexpected |-> diff.unexpected]

\* The error values a call on the slave ends with; a panic is not a return.
NilError == [kind |-> "nil", missing |-> {}, unexpected |-> {}]
TransportError == [kind |-> "transport", missing |-> {}, unexpected |-> {}]
Panic == [kind |-> "panic", missing |-> {}, unexpected |-> {}]

\* A slice result: nil, or the list.
NilList == [isNil |-> TRUE, items |-> <<>>]
ListOf(l) == [isNil |-> FALSE, items |-> l]
\* A map result: nil, or the mapping.
NilTraffics == [isNil |-> TRUE, m |-> EmptyMap]
TrafficsOf(m) == [isNil |-> FALSE, m |-> m]

\* Go maps: address 0 is the nil map. Reading or deleting from nil is allowed,
\* assigning to an entry of nil panics.
NilMap == 0
MapRead(ms, a) == IF a = NilMap THEN EmptyMap ELSE ms[a]
MapAssign(ms, a, k, v) ==
    IF a = NilMap THEN [maps |-> ms, panic |-> TRUE]
    ELSE [maps |-> [ms EXCEPT ![a] = MapPut(@, k, v)], panic |-> FALSE]
MapDelete(ms, a, k) == IF a = NilMap THEN ms ELSE [ms EXCEPT ![a] = MapDel(@, k)]

\* for _, srv := range srvs { m.openedPorts[srv.Port] = srv; m.stats[srv.Port] = 0 }
RECURSIVE addPorts(_, _, _)
addPorts(ms, m, srvs) ==
    IF srvs = <<>> THEN [maps |-> ms, panic |-> FALSE]
    ELSE LET srv == Head(srvs)
             o   == MapAssign(ms, m.openedPorts, srv.Port, srv)
             t   == MapAssign(o.maps, m.stats, srv.Port, 0)
         IN  IF o.panic THEN o
             ELSE IF t.panic THEN t
             ELSE addPorts(t.maps, m, Tail(srvs))

\* A removal of the requested ports instead of the ones handed in.
removePortsRequested(ms, m, srvs) ==
    LET gone == {slaveCall.req[i].Port : i \in 1..Len(slaveCall.req)}
        o    == ms[m.openedPorts]
    IN  [ms EXCEPT ![m.openedPorts] = [p \in DOMAIN o \ gone |-> o[p]]]

\* for _, srv := range srvs { delete(m.openedPorts, srv.Port); delete(m.stats, srv.Port) }
RECURSIVE removePorts(_, _, _)
removePorts(ms, m, srvs) ==
    IF srvs = <<>> THEN ms
    ELSE removePorts(MapDelete(MapDelete(ms, m.openedPorts, Head(srvs).Port),
                               m.stats, Head(srvs).Port),
                     m, Tail(srvs))

\* for port, traffic := range stats { m.stats[port] = traffic }
setStats(ms, m, stats) ==
    IF DOMAIN stats = {} THEN [maps |-> ms, panic |-> FALSE]
    ELSE IF m.stats = NilMap THEN [maps |-> ms, panic |-> TRUE]
    ELSE [maps |-> [ms EXCEPT ![m.stats] =
                       [k \in DOMAIN @ \cup DOMAIN stats |->
                           IF k \in DOMAIN stats THEN stats[k] ELSE @[k]]],
          panic |-> FALSE]

\* slaveMeta.ListServices: the services of openedPorts, by ascending port here.
RECURSIVE MetaListServices(_, _)
MetaListServices(ms, m) ==
    LET o == MapRead(ms, m.openedPorts) IN
    IF DOMAIN o = {} THEN <<>>
    ELSE LET p == CHOOSE q \in DOMAIN o : \A r \in DOMAIN o : q <= r
         IN  <<o[p]>> \o MetaListServices([ms EXCEPT ![m.openedPorts] = MapDel(@, p)], m)

\* The calls on the slave that go to the remote node.
SlaveOps == {"Allocate", "Free", "ListServices", "GetStats", "SetStats"}
NoCall == [op |-> "none", req |-> <<>>, traffics |-> EmptyMap]
NoResp == [back |-> FALSE, err |-> FALSE, list |-> <<>>, traffics |-> EmptyMap]
Resp(list, tr) == [back |-> TRUE, err |-> FALSE, list |-> list, traffics |-> tr]
NoOut  == [list |-> NilList, traffics |-> NilTraffics, err |-> NilError]
NoMeta == [openedPorts |-> NilMap, stats |-> NilMap]

\* The inputs: what callers request and what the remote node answers.
Requests == DistinctLists(Services, MaxReq)
Responses == {constructProtocolServiceList(l) : l \in Requests}
TrafficValues == {0, 7}
TrafficMaps == UNION {[S -> TrafficValues] : S \in SUBSET Ports}

SlaveFrame == UNCHANGED supVars

\* Dial: grpc.Dial fails, or conn and stub are set.
Dial ==
    /\ slavePc = "idle"
    /\ \E ok \in BOOLEAN :
         /\ stub' = (IF ok THEN TRUE ELSE stub)
         /\ slaveOut' = [NoOut EXCEPT !.err = IF ok THEN NilError ELSE TransportError]
    /\ slaveCall' = [NoCall EXCEPT !.op = "Dial"]
    /\ UNCHANGED <<meta, maps, slavePc, slaveResp, metaCopy>>
    /\ SlaveFrame

\* Close: conn and stub are cleared, then conn.Close() runs on the old conn; on a
\* slave that is not connected that is a call on a nil pointer.
Close ==
    /\ slavePc = "idle"
    /\ stub' = FALSE
    /\ slaveCall' = [NoCall EXCEPT !.op = "Close"]
    /\ slavePc' = (IF stub THEN "idle" ELSE "panicked")
    /\ slaveOut' = [NoOut EXCEPT !.err = IF stub THEN NilError ELSE Panic]
    /\ UNCHANGED <<meta, maps, slaveResp, metaCopy>>
    /\ SlaveFrame

\* A caller starts Allocate, Free, ListServices, GetStats or SetStats: the
\* request goes out through s.stub; a nil stub is a nil dereference.
SlaveCall(reqs, tms) ==
    /\ slavePc = "idle"
    /\ \E op \in SlaveOps :
         \E req \in (IF op \in {"Allocate", "Free"} THEN reqs ELSE {<<>>}) :
           \E tr \in (IF op = "SetStats" THEN tms ELSE {EmptyMap}) :
             slaveCall' = [op |-> op, req |-> req, traffics |-> tr]
    /\ slavePc' = (IF stub THEN "rpc" ELSE "panicked")
    /\ slaveOut' = (IF stub THEN NoOut ELSE [NoOut EXCEPT !.err = Panic])
    /\ slaveResp' = NoResp
    /\ UNCHANGED <<meta, maps, stub, metaCopy>>
    /\ SlaveFrame

\* A transport error returned after the request was already recorded locally.
ReturnTransportErrorAfterUpdate ==
    /\ slaveResp' = [Resp(<<>>, EmptyMap) EXCEPT !.err = TRUE]
    /\ slaveOut' = [NoOut EXCEPT !.err = TransportError]
    /\ slavePc' = "idle"
    /\ maps' = addPorts(maps, meta, slaveCall.req).maps

\* The remote call came back with a transport error: return nil, err.
ReturnTransportError ==
    /\ slaveResp' = [Resp(<<>>, EmptyMap) EXCEPT !.err = TRUE]
    /\ slaveOut' = [NoOut EXCEPT !.err = TransportError]
    /\ slavePc' = "idle"
    /\ UNCHANGED maps

\* The end of a call whose local update returned r = [maps, panic].
ReturnOrPanic(r, out) ==
    /\ maps' = r.maps
    /\ slavePc' = (IF r.panic THEN "panicked" ELSE "idle")
    /\ slaveOut' = (IF r.panic THEN [NoOut EXCEPT !.err = Panic] ELSE out)

\* Allocate, from the return of s.stub.Allocate on.
Allocate(resps) ==
    /\ slavePc = "rpc"
    /\ slaveCall.op = "Allocate"
    /\ \/ ReturnTransportError
       \/ \E resp \in resps :
            LET serviceList   == constructProtocolServiceList(slaveCall.req)
                diff          == compareLists(serviceList, resp)
                allocatedList == constructServiceList(resp)
            IN  /\ slaveResp' = Resp(resp, EmptyMap)
                /\ ReturnOrPanic(addPorts(maps, meta, allocatedList),
                      [NoOut EXCEPT !.list = ListOf(allocatedList),
                                    !.err = IF diff # NoDiff
                                            THEN constructErrorFromDifferenceServiceList(diff)
                                            ELSE NilError])
    /\ UNCHANGED <<meta, stub, slaveCall, metaCopy>>
    /\ SlaveFrame

\* Free, from the return of s.stub.Free on.
Free(resps) ==
    /\ slavePc = "rpc"
    /\ slaveCall.op = "Free"
    /\ \/ ReturnTransportError
       \/ \E resp \in resps :
            LET serviceList == constructProtocolServiceList(slaveCall.req)
                diff        == compareLists(serviceList, resp)
                freedList   == constructServiceList(resp)
            IN  /\ slaveResp' = Resp(resp, EmptyMap)
                /\ maps' = removePorts(maps, meta, freedList)
                /\ slavePc' = "idle"
                /\ slaveOut' = [NoOut EXCEPT !.list = ListOf(freedList),
                                             !.err = IF diff # NoDiff
                                                     THEN constructErrorFromDifferenceServiceList(diff)
                                                     ELSE NilError]
    /\ UNCHANGED <<meta, stub, slaveCall, metaCopy>>
    /\ SlaveFrame

\* ListServices, from the return of s.stub.ListServices on: the difference to
\* the recorded services is only logged.
ListServices(resps) ==
    /\ slavePc = "rpc"
    /\ slaveCall.op = "ListServices"
    /\ \/ ReturnTransportError
       \/ \E resp \in resps :
            /\ slaveResp' = Resp(resp, EmptyMap)
            /\ slavePc' = "idle"
            /\ slaveOut' = [NoOut EXCEPT !.list = ListOf(constructServiceList(resp))]
            /\ UNCHANGED maps
    /\ UNCHANGED <<meta, stub, slaveCall, metaCopy>>
    /\ SlaveFrame

\* GetStats, from the return of s.stub.GetStats on.
GetStats(tms) ==
    /\ slavePc = "rpc"
    /\ slaveCall.op = "GetStats"
    /\ \/ ReturnTransportError
       \/ \E tr \in tms :
            /\ slaveResp' = Resp(<<>>, tr)
            /\ ReturnOrPanic(setStats(maps, meta, tr), [NoOut EXCEPT !.traffics = TrafficsOf(tr)])
    /\ UNCHANGED <<meta, stub, slaveCall, metaCopy>>
    /\ SlaveFrame

\* SetStats, from the return of s.stub.SetStats on.
SetStats ==
    /\ slavePc = "rpc"
    /\ slaveCall.op = "SetStats"
    /\ \/ ReturnTransportError
       \/ /\ slaveResp' = Resp(<<>>, EmptyMap)
          /\ ReturnOrPanic(setStats(maps, meta, slaveCall.traffics), NoOut)
    /\ UNCHANGED <<meta, stub, slaveCall, metaCopy>>
    /\ SlaveFrame

\* Meta: return s.meta, a copy of the struct: the addresses of the two maps.
Meta ==
    /\ slavePc = "idle"
    /\ metaCopy' = meta
    /\ slaveCall' = [NoCall EXCEPT !.op = "Meta"]
    /\ slaveOut' = NoOut
    /\ UNCHANGED <<meta, maps, stub, slavePc, slaveResp>>
    /\ SlaveFrame

\* Code of the package that got a copy from Meta() assigns to an entry of the
\* copy's openedPorts: copy.openedPorts[srv.Port] = srv.
MetaCopyAssign(srvs) ==
    /\ slavePc = "idle"
    /\ metaCopy # NoMeta
    /\ \E srv \in srvs :
         LET r == MapAssign(maps, metaCopy.openedPorts, srv.Port, srv) IN
         /\ ~r.panic
         /\ maps' = r.maps
         /\ maps' # maps
    /\ UNCHANGED <<meta, stub, slavePc, slaveCall, slaveResp, slaveOut, metaCopy>>
    /\ SlaveFrame

\* ------------------------------------------------------------ specifications
\* NewSlave: openedPorts is made, stats is left nil, no connection.
InitSlave ==
    /\ maps = <<EmptyMap>>
    /\ meta = [openedPorts |-> 1, stats |-> NilMap]
    /\ stub = FALSE
    /\ slavePc = "idle"
    /\ slaveCall = NoCall
    /\ slaveResp = NoResp
    /\ slaveOut = NoOut
    /\ metaCopy = NoMeta

\* NewManager: an empty table, both locks free, nothing started.
InitSupervisor ==
    /\ pc = [t \in Threads |-> IF t = TMon THEN "MonSleep" ELSE "idle"]
    /\ serverLock = [w |-> NoThread, r |-> {}]
    /\ execLock = NoThread
    /\ heap = EmptyMap
    /\ servers = EmptyMap
    /\ procs = <<>>
    /\ disk = [p \in Ports |-> {}]
    /\ addArg = 0
    /\ remArg = 0
    /\ monSnap = EmptyMap
    /\ monCur = 0
    /\ udpBuf = [i \in 1..TagLen |-> NUL]
    /\ udpPkt = NoPacket
    /\ udpPort = Int64Zero
    /\ udpTraffic = 0
    /\ getArg = 0
    /\ held = EmptyMap
    /\ result = [t \in Threads |-> ErrNone]
    /\ fx = [t \in Threads |-> {}]
    /\ removed = {}

Init == InitSupervisor /\ InitSlave

\* The steps of each thread of control.
AddNext(cfgs) == AddCall(cfgs) \/ AddLockServer \/ AddLockExec \/ AddBody \/ AddUnlock

RemNext(ports) == RemoveCall(ports) \/ RemLockServer \/ RemLockExec \/ RemBody \/ RemUnlock

MonNext ==
    MonRLock \/ MonList \/ MonIter \/ MonLockExec \/ MonExec \/ MonRemove \/ MonUnlockExec

GetNext(args) == GetCall(args) \/ GetRLock \/ GetBody \/ SnapSetPassword \/ SnapStoreStat \/ GetDrop

UdpNext(pkts) == UdpRecv(pkts) \/ StatParse \/ StatRLock \/ StatUpdate

\* Process management: callers of Add and Remove, the monitor, and children
\* that terminate on their own.
Next == AddNext({GoodConfig(p) : p \in Ports}) \/ RemNext(Ports) \/ MonNext \/ Crash

Spec == Init /\ [][Next]_vars

\* Telemetry: the receive loop beside callers of Add and Remove.
StatNext == AddNext({GoodConfig(p) : p \in Ports}) \/ RemNext(Ports) \/ UdpNext(AllPackets)

StatSpec == Init /\ [][StatNext]_vars

\* Snapshots: a caller of ListServers/GetServer beside everything that changes
\* the table or its entries.
SnapNext ==
    \/ AddNext({GoodConfig(1)}) \/ RemNext({1}) \/ MonNext
    \/ GetNext({0, 1}) \/ UdpNext({StatPacket(<<<<Itoa(1), 9>>>>)})

SnapSpec == Init /\ [][SnapNext]_vars

\* The receive loop with datagrams of every length, beside callers of Add.
RecvNext ==
    \/ AddNext({GoodConfig(p) : p \in Ports})
    \/ UdpNext(GoodPackets \cup ShortDatagrams \cup {Packet("stat", FALSE, <<>>)})

RecvSpec == Init /\ [][RecvNext]_vars

\* Add with every kind of configuration, beside Remove and dying children.
AddSpecNext == AddNext(AllConfigs) \/ RemNext(Ports) \/ Crash

AddSpec == Init /\ [][AddSpecNext]_vars

\* The slave: one caller, and a remote node that answers as it likes.
SlaveNext ==
    \/ Dial \/ Close \/ SlaveCall(Requests, TrafficMaps)
    \/ Allocate(Responses) \/ Free(Responses) \/ ListServices(Responses)
    \/ GetStats(TrafficMaps) \/ SetStats \/ Meta \/ MetaCopyAssign(Services)

SlaveSpec == Init /\ [][SlaveNext]_vars

\* ---------------------------------------------------------------- claims
\* The entry of the table for a port, and the live children started for it.
Entry(p) == heap[servers[p]]
LiveChildren(p) == {pid \in DOMAIN procs : procs[pid].alive /\ procs[pid].port = p}

\* C1: when the monitor has dealt with a snapshot whose process was dead (it is
\* about to release execLock), the table has no entry for that port, or the
\* entry's process is alive - unless the relaunched process has itself
\* terminated again since. After a failed relaunch the entry is gone.
MonitorLeavesNoDeadEntry ==
    pc[TMon] = "MonUnlockExec" =>
        LET port == heap[monCur].Port IN
        IF result[TMon] = ErrNone
        THEN port \in DOMAIN servers => (Alive(Entry(port)) \/ ~Alive(heap[monCur]))
        ELSE port \notin DOMAIN servers

\* C2: no two threads each hold one of serverLock and execLock while waiting
\* for the other.
HoldsServerLock(t) == serverLock.w = t \/ t \in serverLock.r
HoldsExecLock(t) == execLock = t
WaitsForServerLock(t) == pc[t] \in {"AddLockServer", "RemLockServer", "MonRemove"}
WaitsForExecLock(t) == pc[t] \in {"AddLockExec", "RemLockExec", "MonLockExec"}
NoLockCycle ==
    ~ \E t1, t2 \in Threads :
        /\ t1 # t2
        /\ HoldsServerLock(t1) /\ WaitsForExecLock(t1)
        /\ HoldsExecLock(t2) /\ WaitsForServerLock(t2)

\* C3: at most one live child process started by the supervisor per port.
AtMostOneLiveChildPerPort == \A p \in Ports : Cardinality(LiveChildren(p)) <= 1

\* C4: once Remove(port) has returned nil, and with no Add of the port since,
\* the table has no entry for the port and its working directory does not exist.
RemoveLeavesNoResidue == \A p \in removed : p \notin DOMAIN servers /\ disk[p] = {}

\* C5: Add on a port the table holds returns ErrServerExists, and Add of an
\* invalid configuration on an absent port returns ErrInvalidServer; either way
\* it starts no process, touches no file and leaves the table and its entries
\* as they were.
AddLeavesAllAlone ==
    /\ servers' = servers
    /\ procs' = procs
    /\ disk' = disk
    /\ fx'[TAdd] = {}
    /\ \A p \in DOMAIN servers : heap'[servers[p]] = heap[servers[p]]
IsInvalidConfig(s) == \E c \in InvalidConfigs : ConfigOf(c) = ConfigOf(s)
AddRejectsWithoutEffect ==
    [][ (pc[TAdd] = "AddBody" /\ pc'[TAdd] = "AddUnlock") =>
          LET s == heap[addArg] IN
          /\ s.Port \in DOMAIN servers =>
                (result'[TAdd] = ErrServerExists /\ AddLeavesAllAlone)
          /\ (s.Port \notin DOMAIN servers /\ IsInvalidConfig(s)) =>
                (result'[TAdd] = ErrInvalidServer /\ AddLeavesAllAlone) ]_vars

\* C5 witness: Add was refused on a port the table holds, for a configuration
\* other than the entry's.
AddRefusedOnHeldPort ==
    /\ pc[TAdd] = "AddUnlock"
    /\ result[TAdd] = ErrServerExists
    /\ heap[addArg].Port \in DOMAIN servers
    /\ ConfigOf(heap[addArg]) # ConfigOf(Entry(heap[addArg].Port))

\* The keys of the datagram in hand, and whether a key is the numeral of a port.
PacketKeys == {udpPkt.pairs[i][1] : i \in 1..Len(udpPkt.pairs)}
StatsUnchanged == \A p \in DOMAIN servers : heap'[servers[p]].stat = heap[servers[p]].stat
HandlerStores == pc[TUdp] = "StatUpdate" /\ pc'[TUdp] = "idle"

\* C6: a stat packet none of whose keys is the numeral of a port of the table
\* leaves the stat of every entry unchanged.
UnknownPortKeepsStats ==
    [][ (HandlerStores /\ \A k \in PacketKeys : \A p \in DOMAIN servers : k # Itoa(p))
          => StatsUnchanged ]_vars

\* C7: a single-key packet {port: n}, n >= 0, for a port of the table sets that
\* entry's Traffic to n (as GetServer reports it) and changes nothing else of
\* that entry, no other entry, no process and no file.
StatPacketSetsTraffic ==
    [][ (/\ HandlerStores
         /\ Len(udpPkt.pairs) = 1
         /\ udpPkt.pairs[1][2] >= 0
         /\ \E p \in DOMAIN servers : udpPkt.pairs[1][1] = Itoa(p))
          => LET p == CHOOSE q \in DOMAIN servers : udpPkt.pairs[1][1] = Itoa(q)
                 n == udpPkt.pairs[1][2]
             IN  /\ servers' = servers
                 /\ GetStat(clone(heap'[servers'[p]])) = n
                 /\ heap'[servers[p]] = [heap[servers[p]] EXCEPT !.stat = <<n>>]
                 /\ \A q \in DOMAIN servers \ {p} : heap'[servers[q]] = heap[servers[q]]
                 /\ procs' = procs
                 /\ disk' = disk ]_vars

\* C7 witness: the handler holds the read lock with the packet {"1": 9} while
\* both ports have an entry whose Traffic an earlier packet set to 5.
SecondPacketForPort ==
    /\ pc[TUdp] = "StatUpdate"
    /\ udpPkt = StatPacket(<<<<Itoa(1), 9>>>>)
    /\ DOMAIN servers = Ports
    /\ \A p \in Ports : Entry(p).stat = <<5>>

\* C8: a packet that is malformed, has more than one key or carries a negative
\* value leaves the stat of every entry unchanged.
BadPacketsDropped ==
    [][ (/\ HandlerStores
         /\ \/ ~udpPkt.json
            \/ Cardinality(PacketKeys) > 1
            \/ \E i \in 1..Len(udpPkt.pairs) : udpPkt.pairs[i][2] < 0)
          => StatsUnchanged ]_vars

\* C9: what a caller writes into a snapshot changes no entry of the table, and
\* no step of anyone else changes the config or the stat of a snapshot a caller
\* holds.
CallerWrites == SnapSetPassword \/ SnapStoreStat
SnapshotIsolation ==
    [][ /\ CallerWrites =>
              (servers' = servers /\ \A p \in DOMAIN servers : heap'[servers[p]] = heap[servers[p]])
        /\ (pc[TGet] = "GetHold" /\ pc'[TGet] = "GetHold" /\ ~CallerWrites) =>
              \A p \in DOMAIN held :
                  /\ ConfigOf(heap'[held[p]]) = ConfigOf(heap[held[p]])
                  /\ heap'[held[p]].stat = heap[held[p]].stat ]_vars

\* C9 witness: a caller holds a snapshot taken before any stat packet and has
\* changed its password; the entry has since been set to 9 and has its own password.
SnapshotDiverged ==
    \E p \in DOMAIN held \cap DOMAIN servers :
        /\ heap[held[p]].Password = CallerPassword
        /\ heap[held[p]].stat = <<0>>
        /\ Entry(p).Password # CallerPassword
        /\ Entry(p).stat = <<9>>

\* C10: once Allocate on a slave made by NewSlave got back from the remote node
\* a list with the identity keys of the request, the call has ended with a nil
\* error, and NodeMeta maps every returned port to its service with a traffic
\* counter of 0.
AllocateFullSuccess ==
    (/\ slaveCall.op = "Allocate"
     /\ slaveResp.back
     /\ ~slaveResp.err
     /\ KeysOf(slaveResp.list) = KeysOf(constructProtocolServiceList(slaveCall.req)))
    => /\ slavePc = "idle"
       /\ slaveOut.err = NilError
       /\ \A i \in 1..Len(slaveResp.list) :
             LET srv == constructServiceList(slaveResp.list)[i] IN
             /\ srv.Port \in DOMAIN MapRead(maps, meta.openedPorts)
             /\ MapRead(maps, meta.openedPorts)[srv.Port].Port = srv.Port
             /\ srv.Port \in DOMAIN MapRead(maps, meta.stats)
             /\ MapRead(maps, meta.stats)[srv.Port] = 0

\* What a call on the slave asked for and got back, by identity key, once the
\* remote call has returned without a transport error.
RemoteAnswered(ops) == slaveCall.op \in ops /\ slaveResp.back /\ ~slaveResp.err
RequestedKeys == KeysOf(constructProtocolServiceList(slaveCall.req))
ReturnedKeys == KeysOf(slaveResp.list)
OpenedPorts == MapRead(maps, meta.openedPorts)
Counters == MapRead(maps, meta.stats)

\* C11: once the remote call of Allocate or Free has answered, the call has
\* returned, with an error exactly when requested and returned keys differ, and
\* the error lists requested-not-returned as missing and returned-not-requested
\* as unexpected.
ReconciliationReported ==
    RemoteAnswered({"Allocate", "Free"})
    => /\ slavePc = "idle"
       /\ (slaveOut.err # NilError) <=> (RequestedKeys # ReturnedKeys)
       /\ slaveOut.err.missing = RequestedKeys \ ReturnedKeys
       /\ slaveOut.err.unexpected = ReturnedKeys \ RequestedKeys

\* C12: once the remote call of Allocate or Free has answered with a list that
\* differs from the request, the call has returned that list and a non-nil
\* error; a call that returned a nil list had a transport error.
FailSoftResult ==
    /\ (RemoteAnswered({"Allocate", "Free"}) /\ RequestedKeys # ReturnedKeys)
         => /\ slavePc = "idle"
            /\ slaveOut.list = ListOf(constructServiceList(slaveResp.list))
            /\ slaveOut.err # NilError
    /\ (slaveCall.op \in {"Allocate", "Free"} /\ slaveResp.back /\ slavePc = "idle"
          /\ slaveOut.list.isNil) => slaveResp.err

\* C13: a call whose remote call came back with a transport error returns that
\* error and leaves both maps of NodeMeta as they were; starting a call changes
\* neither map.
ChannelFailureMutatesNothing ==
    [][ /\ (slavePc = "rpc" /\ slaveResp'.back /\ slaveResp'.err)
            => /\ maps' = maps
               /\ meta' = meta
               /\ slavePc' = "idle"
               /\ slaveOut' = [NoOut EXCEPT !.err = TransportError]
        /\ (slavePc = "idle" /\ slavePc' = "rpc") => (maps' = maps /\ meta' = meta) ]_vars

\* C13 witness: Allocate of two services came back with a transport error on a
\* slave whose NodeMeta holds a port.
ChannelFailureWithPorts ==
    /\ slaveCall.op = "Allocate"
    /\ Len(slaveCall.req) = 2
    /\ slaveResp.back
    /\ slaveResp.err
    /\ slaveOut.err = TransportError
    /\ DOMAIN OpenedPorts # {}

\* C14: once the remote call of GetStats has answered, the call has returned
\* the remote counters and NodeMeta's counters are exactly the remote ones.
GetStatsOverwrites ==
    RemoteAnswered({"GetStats"})
    => /\ slavePc = "idle"
       /\ slaveOut.traffics = TrafficsOf(slaveResp.traffics)
       /\ Counters = slaveResp.traffics

\* C15: an assignment through a copy got from Meta() changes no mapping of the
\* slave's NodeMeta, and no call on the slave changes a mapping of the copy.
MetaCopyIsolated ==
    [][ metaCopy # NoMeta =>
          /\ MetaCopyAssign(Services) =>
                /\ MapRead(maps', meta.openedPorts) = OpenedPorts
                /\ MapRead(maps', meta.stats) = Counters
          /\ slavePc = "rpc" =>
                /\ MapRead(maps', metaCopy.openedPorts) = MapRead(maps, metaCopy.openedPorts)
                /\ MapRead(maps', metaCopy.stats) = MapRead(maps, metaCopy.stats) ]_vars

\* C18: a Free whose remote call answered leaves a port out of NodeMeta exactly
\* when it was out before or a returned service has it, and leaves what stays,
\* service and counter, as it was.
FreeRemovesConfirmedPorts ==
    [][ (slavePc = "rpc" /\ slaveCall.op = "Free" /\ slaveResp'.back /\ ~slaveResp'.err)
          => LET freed == {slaveResp'.list[i][2] : i \in 1..Len(slaveResp'.list)}
                 after == MapRead(maps', meta'.openedPorts)
                 count == MapRead(maps', meta'.stats)
             IN  /\ DOMAIN after = DOMAIN OpenedPorts \ freed
                 /\ \A p \in DOMAIN after : after[p] = OpenedPorts[p]
                 /\ DOMAIN count = DOMAIN Counters \ freed
                 /\ \A p \in DOMAIN count : count[p] = Counters[p] ]_vars

\* C18 witness: Free of the services of two ports got back one of them; the
\* other port is still in NodeMeta, the returned one is not.
FreeKeptUnconfirmedPort ==
    /\ RemoteAnswered({"Free"})
    /\ slavePc = "idle"
    /\ Len(slaveCall.req) = 2
    /\ Len(slaveResp.list) = 1
    /\ ReturnedKeys \subseteq RequestedKeys
    /\ \E i \in 1..2 :
         /\ KeyOf(constructProtocolServiceList(slaveCall.req)[i]) \notin ReturnedKeys
         /\ slaveCall.req[i].Port \in DOMAIN OpenedPorts
         /\ slaveResp.list[1][2] # slaveCall.req[i].Port
         /\ slaveResp.list[1][2] \notin DOMAIN OpenedPorts

\* C16: the stat handler never waits for the table lock while the caller of Add
\* or Remove that holds it is in the part that starts or kills a process and
\* reads or writes the working directory.
ProcessWorkUnderTableLock(t) == serverLock.w = t /\ pc[t] \in {"AddBody", "RemBody"}
TelemetryNeverWaitsOnProcessWork ==
    ~ (pc[TUdp] = "StatRLock" /\ \E t \in {TAdd, TRem} : ProcessWorkUnderTableLock(t))

\* C19: every live child the supervisor started is the process of the table
\* entry of its port, and a port whose Remove returned nil, with no Add since,
\* has no live child.
NoOrphanProcess ==
    /\ \A pid \in DOMAIN procs :
         procs[pid].alive =>
            /\ procs[pid].port \in DOMAIN servers
            /\ Process(Entry(procs[pid].port)) = pid
    /\ \A p \in removed : LiveChildren(p) = {}

\* C20: the monitor's deleteResidue after a failed relaunch never empties the
\* working directory of a port whose table entry is alive, and its mgr.remove
\* never deletes an entry that is alive.
LiveEntry(p) == p \in DOMAIN servers /\ Alive(Entry(p))
MonitorRemovesOnlyExamined ==
    [][ /\ (pc[TMon] = "MonExec" /\ pc'[TMon] = "MonRemove")
            => ~ (LiveEntry(heap[monCur].Port) /\ disk'[heap[monCur].Port] = {})
        /\ (pc[TMon] = "MonRemove" /\ pc'[TMon] = "MonUnlockExec")
            => ~ LiveEntry(heap[monCur].Port) ]_vars

\* C17: a datagram that does not decode - too short for a body, not a stat
\* command, or a body that does not unmarshal - is dropped: neither the receive
\* loop nor the handler aborts on it, and no entry's stat changes.
DecodeError(d) == d.n <= BodyStart \/ d.tag # "stat" \/ ~d.json
DatagramInHand == IF pc[TUdp] = "idle" THEN udpPkt' ELSE udpPkt
DecodeErrorsOnlyDropped ==
    [][ (pc'[TUdp] # pc[TUdp] /\ DecodeError(DatagramInHand))
          => /\ pc'[TUdp] \in {"idle", "StatRecvHandler"}
             /\ StatsUnchanged ]_vars

====
